---------------------------- MODULE Spec2Model ----------------------------
(***************************************************************************)
(* Model of covid19/db.py: class Source over the two tables                *)
(* covid19_<name>_entry (id, timestamp) and covid19_<name> (entry_id,      *)
(* state_code, confirmed, ...).                                            *)
(*                                                                         *)
(* Time is counted in ticks; a calendar day holds TicksPerDay ticks, so    *)
(* date_trunc('day', t) is t \div TicksPerDay.  A NULL / None count is     *)
(* the value None (-1); real counts are naturals.                          *)
(***************************************************************************)
EXTENDS Integers, Sequences, FiniteSets, TLC

\* ---------------------------------------------------------------- bounds
MaxId == 3
MaxTs == 1
TicksPerDay == 2
MaxDay == 1
MaxEntries == 3
LastDay == 21
MaxCount == 1

\* ------------------------------------------------------------- constants
\* range(21) at db.py:144
RangeLen == 21
\* the window [max_date-19, max_date] that range(21)[:-1] at db.py:144 leaves
WindowLen == 20

None == -1

\* two requests served at the same time
Procs == {"p1", "p2"}
StateCodes == <<"ap", "kl">>
\* timestamps handed to add_new_entry
Timestamps == 0..MaxTs
\* days and timestamps of the entry tables the read requests run on
Days == 0..MaxDay
ReadTimestamps == {d * TicksPerDay + k : d \in Days, k \in {0, TicksPerDay - 1}}

\* data batches a caller may hand to add_new_entry: one row per region
AdmissionData ==
    { {[state_code |-> "ap", confirmed |-> 1]},
      {[state_code |-> "ap", confirmed |-> 3], [state_code |-> "kl", confirmed |-> None]} }

VARIABLES
    entryTable,   \* committed rows of covid19_<name>_entry: [id, timestamp]
    caseTable,    \* committed rows of covid19_<name>: [entry_id, state_code, confirmed]
    nextId,       \* the entry table's id sequence
    pc,           \* per caller: position inside add_new_entry
    arg,          \* per caller: [timestamp, data] of the running call
    entry_id,     \* per caller: the id db.insert returned (0 before)
    outcome,      \* per caller: how the last call ended
    pending,      \* per caller: uncommitted writes of its open transaction
    reply         \* what the last read request returned

vars == <<entryTable, caseTable, nextId, pc, arg, entry_id, outcome, pending, reply>>

NoArg == [timestamp |-> 0, data |-> {}]
NoWrites == [entries |-> {}, rows |-> {}]
NoReply == [op |-> "none", date |-> None, exc |-> "", rows |-> <<>>]

\* Python truth of a count: None and 0 are false
Truthy(v) == v # None /\ v # 0

\* date_trunc('day', timestamp)
DateTrunc(t) == t \div TicksPerDay

\* ------------------------------------------------------------ admission

\* has_entry that never finds anything
has_entry_never(tbl, timestamp) == FALSE

\* Source.has_entry: db.where(entry_table, timestamp=timestamp).first() is not None
has_entry(tbl, timestamp) == \E e \in tbl : e.timestamp = timestamp

\* [dict(row, entry_id=entry_id) for row in data]
TagRows(data, id) ==
    {[k \in DOMAIN r \cup {"entry_id"} |-> IF k = "entry_id" THEN id ELSE r[k]] : r \in data}

\* a write made outside any transaction is visible at once
AutocommitWrite(committed, uncommitted, rows) ==
    [committed |-> committed \cup rows, uncommitted |-> uncommitted]

\* a write made inside `with db.transaction()` stays with the transaction
TxnWrite(committed, uncommitted, rows) ==
    [committed |-> committed, uncommitted |-> uncommitted \cup rows]

\* a commit under a storage rule that silently drops a row whose timestamp is taken
TxnCommitUnique(committed, uncommitted) ==
    committed \cup {u \in uncommitted : \A c \in committed : c.timestamp # u.timestamp}

\* leaving the with-block normally commits, leaving it by an exception rolls back
TxnCommit(committed, uncommitted) == committed \cup uncommitted
TxnCommitRows(committed, uncommitted) == committed \cup uncommitted
TxnRollback(committed, uncommitted) == committed

\* add_new_entry, up to the point where the transaction opens
AddNewEntryCheck(p, t, d) ==
    /\ pc[p] = "idle"
    /\ arg' = [arg EXCEPT ![p] = [timestamp |-> t, data |-> d]]
    /\ entry_id' = [entry_id EXCEPT ![p] = 0]
    /\ IF has_entry(entryTable, t)
         THEN /\ pc' = [pc EXCEPT ![p] = "done"]
              /\ outcome' = [outcome EXCEPT ![p] = "ignored"]
         ELSE /\ nextId + Cardinality({q \in Procs : pc[q] = "adding"}) <= MaxId
              /\ pc' = [pc EXCEPT ![p] = "adding"]
              /\ outcome' = [outcome EXCEPT ![p] = ""]
    /\ UNCHANGED <<entryTable, caseTable, nextId, pending, reply>>

\* entry_id = db.insert(self.entry_table, timestamp=timestamp)
InsertEntry(p) ==
    /\ pc[p] = "adding"
    /\ LET w == TxnWrite(entryTable, pending[p].entries,
                         {[id |-> nextId, timestamp |-> arg[p].timestamp]})
       IN /\ entryTable' = w.committed
          /\ pending' = [pending EXCEPT ![p].entries = w.uncommitted]
    /\ entry_id' = [entry_id EXCEPT ![p] = nextId]
    /\ nextId' = nextId + 1
    /\ pc' = [pc EXCEPT ![p] = "entry_inserted"]
    /\ UNCHANGED <<caseTable, arg, outcome, reply>>

\* db.multiple_insert(self.table, data) succeeds
MultipleInsert(p) ==
    /\ pc[p] = "entry_inserted"
    /\ LET w == TxnWrite(caseTable, pending[p].rows, TagRows(arg[p].data, entry_id[p]))
       IN /\ caseTable' = w.committed
          /\ pending' = [pending EXCEPT ![p].rows = w.uncommitted]
    /\ pc' = [pc EXCEPT ![p] = "rows_inserted"]
    /\ UNCHANGED <<entryTable, nextId, arg, entry_id, outcome, reply>>

\* db.multiple_insert raises: the with-block is left by the exception
MultipleInsertFails(p) ==
    /\ pc[p] = "entry_inserted"
    /\ entryTable' = TxnRollback(entryTable, pending[p].entries)
    /\ caseTable' = TxnRollback(caseTable, pending[p].rows)
    /\ pending' = [pending EXCEPT ![p] = NoWrites]
    /\ pc' = [pc EXCEPT ![p] = "done"]
    /\ outcome' = [outcome EXCEPT ![p] = "failed"]
    /\ UNCHANGED <<nextId, arg, entry_id, reply>>

\* the with-block ends: commit
Commit(p) ==
    /\ pc[p] = "rows_inserted"
    /\ entryTable' = TxnCommit(entryTable, pending[p].entries)
    /\ caseTable' = TxnCommitRows(caseTable, pending[p].rows)
    /\ pending' = [pending EXCEPT ![p] = NoWrites]
    /\ pc' = [pc EXCEPT ![p] = "done"]
    /\ outcome' = [outcome EXCEPT ![p] = "added"]
    /\ UNCHANGED <<nextId, arg, entry_id, reply>>

\* add_new_entry has returned; the caller is free for its next call
Return(p) ==
    /\ pc[p] = "done"
    /\ pc' = [pc EXCEPT ![p] = "idle"]
    /\ arg' = [arg EXCEPT ![p] = NoArg]
    /\ entry_id' = [entry_id EXCEPT ![p] = 0]
    /\ outcome' = [outcome EXCEPT ![p] = ""]
    /\ UNCHANGED <<entryTable, caseTable, nextId, pending, reply>>

\* ---------------------------------------------------------------- reads

LatestTimestamp(S) == CHOOSE m \in {e.timestamp : e \in S} : \A e \in S : e.timestamp <= m

\* ORDER BY timestamp DESC: every order the engine may return (ties are free)
RECURSIVE OrderByTimestampDesc(_)
OrderByTimestampDesc(S) ==
    IF S = {} THEN {<<>>}
    ELSE UNION { {<<e>> \o s : s \in OrderByTimestampDesc(S \ {e})}
                 : e \in {x \in S : x.timestamp = LatestTimestamp(S)} }

\* LIMIT 1
Limit1(s) == IF s = <<>> THEN <<>> ELSE <<s[1]>>

\* the bound without the added day
UpperBoundSameDay(date) == date * TicksPerDay

\* strptime(date, "%Y-%m-%d") + timedelta(days=1), in ticks
UpperBound(date) == (date + 1) * TicksPerDay

\* WHERE timestamp < $date
WhereBefore(tbl, bound) == {e \in tbl : e.timestamp < bound}

\* Source.get_entry: the possible results (a sequence of at most one row)
get_entry(tbl, date) ==
    LET rows == IF date # None THEN WhereBefore(tbl, UpperBound(date)) ELSE tbl
    IN {Limit1(s) : s \in OrderByTimestampDesc(rows)}

\* of the ordered rows keep each day's last row
KeepLastOfDay(s) ==
    LET keep == {i \in 1..Len(s) : i = Len(s) \/ DateTrunc(s[i].timestamp) # DateTrunc(s[i+1].timestamp)}
        F[i \in 0..Len(s)] ==
            IF i = 0 THEN <<>>
            ELSE IF i \in keep THEN F[i-1] \o <<s[i]>> ELSE F[i-1]
    IN F[Len(s)]

\* SELECT DISTINCT ON (day): of the ordered rows keep each day's first row
DistinctOnDay(s) ==
    LET keep == {i \in 1..Len(s) : i = 1 \/ DateTrunc(s[i].timestamp) # DateTrunc(s[i-1].timestamp)}
        F[i \in 0..Len(s)] ==
            IF i = 0 THEN <<>>
            ELSE IF i \in keep THEN F[i-1] \o <<s[i]>> ELSE F[i-1]
    IN F[Len(s)]

\* Source.get_daily_entries: ORDER BY day DESC, timestamp DESC is ORDER BY
\* timestamp DESC, as the day is monotone in the timestamp
get_daily_entries(tbl) == {DistinctOnDay(s) : s \in OrderByTimestampDesc(tbl)}

DateArgs == Days \cup {None}

GetEntry(date) ==
    /\ \E r \in get_entry(entryTable, date) :
          reply' = [op |-> "get_entry", date |-> date, exc |-> "", rows |-> r]
    /\ UNCHANGED <<entryTable, caseTable, nextId, pc, arg, entry_id, outcome, pending>>

GetDailyEntries ==
    /\ \E r \in get_daily_entries(entryTable) :
          reply' = [op |-> "get_daily_entries", date |-> None, exc |-> "", rows |-> r]
    /\ UNCHANGED <<entryTable, caseTable, nextId, pc, arg, entry_id, outcome, pending>>

\* ------------------------------------------------------------ get_cases

\* every order in which an unordered SELECT may return the rows of S
RECURSIVE AnyOrder(_)
AnyOrder(S) ==
    IF S = {} THEN {<<>>}
    ELSE UNION { {<<r>> \o s : s \in AnyOrder(S \ {r})} : r \in S }

Drop(row, column) == [k \in DOMAIN row \ {column} |-> row[k]]

\* sum(case[k] for case in cases.values()), without the `or 0`
RECURSIVE SumColumnRaw(_, _)
SumColumnRaw(cases, k) ==
    IF cases = <<>> THEN [exc |-> "", val |-> 0]
    ELSE LET rest == SumColumnRaw(Tail(cases), k) IN
         IF Head(cases).row[k] = None \/ rest.exc # "" THEN [exc |-> "TypeError", val |-> None]
         ELSE [exc |-> "", val |-> Head(cases).row[k] + rest.val]

\* sum(case[k] or 0 for case in cases.values())
RECURSIVE SumColumn(_, _)
SumColumn(cases, k) ==
    IF cases = <<>> THEN [exc |-> "", val |-> 0]
    ELSE LET rest == SumColumn(Tail(cases), k)
             v == Head(cases).row[k]
         IN [exc |-> "", val |-> (IF Truthy(v) THEN v ELSE 0) + rest.val]

\* Source.compute_totals; cases is the dict as a sequence of [key, row] in
\* iteration order, and the first key's row supplies the keys
compute_totals(cases) ==
    IF cases = <<>> THEN [exc |-> "IndexError", totals |-> <<>>]
    ELSE LET keys == DOMAIN cases[1].row
             sums == [k \in keys |-> SumColumn(cases, k)]
         IN IF \E k \in keys : sums[k].exc # ""
              THEN [exc |-> "TypeError", totals |-> <<>>]
              ELSE [exc |-> "", totals |-> [k \in keys |-> sums[k].val]]

\* Source.get_cases for the entry get_entry returned and the rows in the
\* order db.where returned them
get_cases(entry, result) ==
    IF entry = <<>> THEN [exc |-> "AttributeError", rows |-> <<>>]
    ELSE LET cases == [i \in 1..Len(result) |->
                          [key |-> result[i].state_code,
                           row |-> Drop(Drop(result[i], "entry_id"), "state_code")]]
             t == compute_totals(cases)
         IN IF t.exc # "" THEN [exc |-> t.exc, rows |-> <<>>]
            ELSE [exc |-> "",
                  rows |-> <<[last_updated |-> entry[1].timestamp,
                              states |-> cases, india |-> t.totals]>>]

GetCases(date) ==
    /\ \E entry \in get_entry(entryTable, date) :
          \E result \in AnyOrder({r \in caseTable : entry # <<>> /\ r.entry_id = entry[1].id}) :
              LET g == get_cases(entry, result)
              IN reply' = [op |-> "get_cases", date |-> date, exc |-> g.exc, rows |-> g.rows]
    /\ UNCHANGED <<entryTable, caseTable, nextId, pc, arg, entry_id, outcome, pending>>

\* --------------------------------------------------------------- growth

\* the scan without the truthiness guard on v
RECURSIVE ScanNoGuard(_, _, _)
ScanNoGuard(values, i, current) ==
    IF i > Len(values) THEN [exc |-> "", val |-> None]
    ELSE IF values[i] = None \/ current = None THEN [exc |-> "TypeError", val |-> None]
    ELSE IF values[i] + values[i] < current THEN [exc |-> "", val |-> i - 1]
    ELSE ScanNoGuard(values, i + 1, current)

\* first(i for i, v in enumerate(values) if v and v+v < current); i is the
\* 1-based position, the index returned is i - 1; v+v < None raises TypeError
RECURSIVE Scan(_, _, _)
Scan(values, i, current) ==
    IF i > Len(values) THEN [exc |-> "", val |-> None]
    ELSE IF ~Truthy(values[i]) THEN Scan(values, i + 1, current)
    ELSE IF current = None THEN [exc |-> "TypeError", val |-> None]
    ELSE IF values[i] + values[i] < current THEN [exc |-> "", val |-> i - 1]
    ELSE Scan(values, i + 1, current)

\* Source._compute_doubled_in (values is never empty here)
compute_doubled_in(values) == Scan(values, 1, values[1])

\* sum(xs): 0 + x + ..., adding None raises TypeError
RECURSIVE SumList(_)
SumList(xs) ==
    IF xs = <<>> THEN [exc |-> "", val |-> 0]
    ELSE LET rest == SumList(Tail(xs)) IN
         IF Head(xs) = None \/ rest.exc # "" THEN [exc |-> "TypeError", val |-> None]
         ELSE [exc |-> "", val |-> Head(xs) + rest.val]

\* the rows of S by date descending (dates within S are distinct)
RECURSIVE OrderByDateDesc(_)
OrderByDateDesc(S) ==
    IF S = {} THEN <<>>
    ELSE LET r == CHOOSE x \in S : \A y \in S : y.date <= x.date
         IN <<r>> \o OrderByDateDesc(S \ {r})

\* ORDER BY 2, 1 DESC over the given state codes, taken in ascending order
RECURSIVE OrderByStateDateDesc(_, _)
OrderByStateDateDesc(S, codes) ==
    IF codes = <<>> THEN <<>>
    ELSE OrderByDateDesc({x \in S : x.state = Head(codes)})
         \o OrderByStateDateDesc(S, Tail(codes))

\* SELECT date_trunc('day', timestamp)::date, state_code, confirmed FROM cases
\* JOIN entry ON entry.id = entry_id WHERE entry_id IN $entry_ids ORDER BY 2, 1 DESC
GrowthQuery(entries, cases, entry_ids) ==
    OrderByStateDateDesc(
        {[date |-> DateTrunc(x[1].timestamp), state |-> x[2].state_code,
          confirmed |-> x[2].confirmed]
            : x \in {y \in entries \X cases :
                        y[1].id = y[2].entry_id /\ y[2].entry_id \in entry_ids}},
        StateCodes)

\* states = defaultdict(list); for row in result: states[row.state].append(row)
\* a dict is a sequence of [key, rows] in insertion order
RECURSIVE GroupRows(_, _)
GroupRows(result, n) ==
    IF n = 0 THEN <<>>
    ELSE LET d == GroupRows(result, n - 1)
             row == result[n]
             at == {k \in 1..Len(d) : d[k].key = row.state}
         IN IF at = {} THEN Append(d, [key |-> row.state, rows |-> <<row>>])
            ELSE [k \in 1..Len(d) |->
                    IF k \in at THEN [d[k] EXCEPT !.rows = Append(@, row)] ELSE d[k]]

\* max({row.date for rows in states.values() for row in rows})
MaxDate(states) ==
    LET ds == {states[k].rows[i].date : <<k, i>> \in
                  {z \in (1..Len(states)) \X (1..RangeLen) : z[2] <= Len(states[z[1]].rows)}}
    IN CHOOSE m \in ds : \A d \in ds : d <= m

\* the window with the slice [:-1] forgotten
WindowDatesFull(max_date) == [i \in 1..RangeLen |-> max_date - (i - 1)]

\* [max_date - i*timedelta(days=1) for i in range(21)][:-1]
WindowDates(max_date) ==
    LET full == [i \in 1..RangeLen |-> max_date - (i - 1)]
    IN SubSeq(full, 1, Len(full) - 1)

\* all confirmed values of states whose row has the given date
RECURSIVE CountsOn(_, _, _)
CountsOn(states, date, n) ==
    IF n = 0 THEN <<>>
    ELSE CountsOn(states, date, n - 1) \o
         LET rows == states[n].rows
             F[i \in 0..Len(rows)] ==
                 IF i = 0 THEN <<>>
                 ELSE IF rows[i].date = date THEN Append(F[i-1], rows[i].confirmed)
                 ELSE F[i-1]
         IN F[Len(rows)]

\* get_cases_growth.compute_totals
growth_compute_totals(states, dates) ==
    LET sums == [i \in 1..Len(dates) |-> SumList(CountsOn(states, dates[i], Len(states)))]
    IN IF \E i \in 1..Len(dates) : sums[i].exc # ""
         THEN [exc |-> "TypeError", rows |-> <<>>]
         ELSE [exc |-> "",
               rows |-> [i \in 1..Len(dates) |->
                           [date |-> dates[i], state |-> "india", confirmed |-> sums[i].val]]]

\* cases.get(date, 0) for cases = {row.date: row.confirmed for row in rows}
CasesGet(rows, date) ==
    LET at == {i \in 1..Len(rows) : rows[i].date = date}
    IN IF at = {} THEN 0
       ELSE rows[CHOOSE i \in at : \A j \in at : j <= i].confirmed

\* get_cases_growth.process_growth
process_growth(key, rows, dates, max_date) ==
    LET d == compute_doubled_in([i \in 1..Len(rows) |-> rows[i].confirmed])
    IN [exc |-> d.exc,
        rec |-> [state |-> key,
                 doubled_in |-> d.val,
                 cases |-> [i \in 1..Len(dates) |->
                              [date |-> dates[i], cases |-> CasesGet(rows, dates[i])]],
                 current |-> CasesGet(rows, max_date)]]

\* key=lambda x: x['cases'][-1]['cases']
SortKeyLast(rec) == rec.cases[Len(rec.cases)].cases

\* key=lambda x: x['cases'][0]['cases']
SortKey(rec) == rec.cases[1].cases

\* sorted(recs, reverse=True, key=...): stable, so equal keys keep their order;
\* comparing None raises TypeError
RECURSIVE SortedReverse(_, _)
SortedReverse(recs, n) ==
    IF n = 0 THEN <<>>
    ELSE LET s == SortedReverse(recs, n - 1)
             x == recs[n]
             before == {k \in 1..Len(s) : SortKey(s[k]) >= SortKey(x)}
             m == Cardinality(before)
         IN SubSeq(s, 1, m) \o <<x>> \o SubSeq(s, m + 1, Len(s))

\* Source.get_cases_growth, given what get_daily_entries returned
get_cases_growth(entries, cases, daily) ==
    LET entry_ids == {daily[i].id : i \in 1..Len(daily)}
        result == GrowthQuery(entries, cases, entry_ids)
        grouped == GroupRows(result, Len(result))
    IN IF grouped = <<>> THEN [exc |-> "ValueError", rows |-> <<>>]
       ELSE
       LET max_date == MaxDate(grouped)
           dates == WindowDates(max_date)
           india == growth_compute_totals(grouped, dates)
       IN IF india.exc # "" THEN [exc |-> india.exc, rows |-> <<>>]
          ELSE
          LET states == Append(grouped, [key |-> "india", rows |-> india.rows])
              recs == [k \in 1..Len(states) |->
                         process_growth(states[k].key, states[k].rows, dates, max_date)]
          IN IF \E k \in 1..Len(recs) : recs[k].exc # ""
               THEN [exc |-> "TypeError", rows |-> <<>>]
             ELSE IF \E k \in 1..Len(recs) : SortKey(recs[k].rec) = None
               THEN [exc |-> "TypeError", rows |-> <<>>]
             ELSE [exc |-> "",
                   rows |-> SortedReverse([k \in 1..Len(recs) |-> recs[k].rec], Len(recs))]

GetCasesGrowth ==
    /\ \E daily \in get_daily_entries(entryTable) :
          LET g == get_cases_growth(entryTable, caseTable, daily)
          IN reply' = [op |-> "get_cases_growth", date |-> None, exc |-> g.exc, rows |-> g.rows]
    /\ UNCHANGED <<entryTable, caseTable, nextId, pc, arg, entry_id, outcome, pending>>

\* ------------------------------------------------------- specifications

TypeOK ==
    /\ pc \in [Procs -> {"idle", "adding", "entry_inserted", "rows_inserted", "done"}]
    /\ nextId \in Nat

Init ==
    /\ entryTable = {}
    /\ caseTable = {}
    /\ nextId = 1
    /\ pc = [p \in Procs |-> "idle"]
    /\ arg = [p \in Procs |-> NoArg]
    /\ entry_id = [p \in Procs |-> 0]
    /\ outcome = [p \in Procs |-> ""]
    /\ pending = [p \in Procs |-> NoWrites]
    /\ reply = NoReply

\* callers from separate requests / processes, interleaved at database operations
Next ==
    \/ \E p \in Procs, t \in Timestamps, d \in AdmissionData : AddNewEntryCheck(p, t, d)
    \/ \E p \in Procs : InsertEntry(p)
    \/ \E p \in Procs : MultipleInsert(p)
    \/ \E p \in Procs : MultipleInsertFails(p)
    \/ \E p \in Procs : Commit(p)
    \/ \E p \in Procs : Return(p)

Spec == Init /\ [][Next]_vars

\* non-overlapping calls: a call starts only when no other call is running
NoCallRunning == \A q \in Procs : pc[q] \in {"idle", "done"}

NextSeq ==
    \/ \E p \in Procs, t \in Timestamps, d \in AdmissionData :
          NoCallRunning /\ AddNewEntryCheck(p, t, d)
    \/ \E p \in Procs : InsertEntry(p)
    \/ \E p \in Procs : MultipleInsert(p)
    \/ \E p \in Procs : MultipleInsertFails(p)
    \/ \E p \in Procs : Commit(p)
    \/ \E p \in Procs : Return(p)

SpecSeq == Init /\ [][NextSeq]_vars

\* read requests on an entry table that admissions (concurrent ones included,
\* so timestamps may repeat; rolled-back ones included, so ids may have gaps)
\* have left behind
EntryTables ==
    UNION { { {[id |-> i, timestamp |-> f[i]] : i \in I} : f \in [I -> ReadTimestamps] }
            : I \in SUBSET (1..MaxEntries) }

InitRead ==
    /\ entryTable \in EntryTables
    /\ caseTable = {}
    /\ nextId = MaxEntries + 1
    /\ pc = [p \in Procs |-> "idle"]
    /\ arg = [p \in Procs |-> NoArg]
    /\ entry_id = [p \in Procs |-> 0]
    /\ outcome = [p \in Procs |-> ""]
    /\ pending = [p \in Procs |-> NoWrites]
    /\ reply = NoReply

NextRead ==
    \/ \E date \in DateArgs : GetEntry(date)
    \/ GetDailyEntries

SpecRead == InitRead /\ [][NextRead]_vars

\* the growth request on tables that one admission per day, and two on the
\* last day, have left behind
Absent == None - 1
GrowthDays == <<0, 1, LastDay - (RangeLen - 2), LastDay>>
LastIdx == Len(GrowthDays)
Cells == (1..LastIdx) \X {StateCodes[i] : i \in 1..Len(StateCodes)}
CellOptions(k) ==
    IF k = 1 THEN {Absent, 1}
    ELSE IF k = 2 THEN {Absent, None, 3}
    ELSE {Absent, None, 0, 1, 3}
\* ids 1..LastIdx-1 for the earlier days, LastIdx for the last day's first
\* entry, LastIdx+1 for the last day's second entry
GrowthEntryId(k) == IF k = LastIdx THEN LastIdx + 1 ELSE k
GrowthEntries ==
    {[id |-> GrowthEntryId(k), timestamp |-> GrowthDays[k] * TicksPerDay + TicksPerDay - 1]
        : k \in 1..LastIdx}
    \cup {[id |-> LastIdx, timestamp |-> LastDay * TicksPerDay]}
SupersededRows == TagRows({[state_code |-> "ap", confirmed |-> 1],
                           [state_code |-> "kl", confirmed |-> 1]}, LastIdx)
GrowthRows(f) ==
    UNION {TagRows({[state_code |-> c[2], confirmed |-> f[c]]}, GrowthEntryId(c[1]))
              : c \in {x \in Cells : f[x] # Absent}}
    \cup SupersededRows

InitGrowth ==
    /\ entryTable = GrowthEntries
    /\ \E f \in [Cells -> {Absent, None, 0, 1, 3}] :
          /\ \A c \in Cells : f[c] \in CellOptions(c[1])
          /\ caseTable = GrowthRows(f)
    /\ nextId = LastIdx + 2
    /\ pc = [p \in Procs |-> "idle"]
    /\ arg = [p \in Procs |-> NoArg]
    /\ entry_id = [p \in Procs |-> 0]
    /\ outcome = [p \in Procs |-> ""]
    /\ pending = [p \in Procs |-> NoWrites]
    /\ reply = NoReply

NextGrowth == GetCasesGrowth

SpecGrowth == InitGrowth /\ [][NextGrowth]_vars

\* get_cases on one admitted entry whose rows carry two count columns
TotalsCodes == {"ap", "kl", "mh"}
CountFields == {"confirmed", "deaths"}
TotalsValues == {None, 0} \cup 1..MaxCount
TotalsData ==
    UNION { { {[state_code |-> c, confirmed |-> f[c][1], deaths |-> f[c][2]] : c \in R}
              : f \in [R -> TotalsValues \X TotalsValues] }
            : R \in SUBSET TotalsCodes }

InitTotals ==
    /\ entryTable = {[id |-> 1, timestamp |-> 0]}
    /\ \E d \in TotalsData : caseTable = TagRows(d, 1)
    /\ nextId = 2
    /\ pc = [p \in Procs |-> "idle"]
    /\ arg = [p \in Procs |-> NoArg]
    /\ entry_id = [p \in Procs |-> 0]
    /\ outcome = [p \in Procs |-> ""]
    /\ pending = [p \in Procs |-> NoWrites]
    /\ reply = NoReply

NextTotals == GetCases(None)

SpecTotals == InitTotals /\ [][NextTotals]_vars

\* ---------------------------------------------------------------- claims

EntriesAt(t) == {e \in entryTable : e.timestamp = t}
RowsOfEntry(id) == {r \in caseTable : r.entry_id = id}
RowsAt(t) == {r \in caseTable : \E e \in EntriesAt(t) : e.id = r.entry_id}
Added(p) == pc[p] = "done" /\ outcome[p] = "added"
Ignored(p) == pc[p] = "done" /\ outcome[p] = "ignored"
Failed(p) == pc[p] = "done" /\ outcome[p] = "failed"
OwnEntry(p) == [id |-> entry_id[p], timestamp |-> arg[p].timestamp]

\* C1: with non-overlapping calls there is at most one entry per timestamp in
\* every state; after add_new_entry(t, d1) has added its entry, the entry table
\* holds exactly that one entry for t and the case table exactly the rows of d1
\* tagged with its id, also after a later add_new_entry(t, d2) was ignored.
C1_Idempotent ==
    /\ \A t \in Timestamps : Cardinality(EntriesAt(t)) <= 1
    /\ \A p \in Procs :
          Added(p) => /\ EntriesAt(arg[p].timestamp) = {OwnEntry(p)}
                      /\ RowsAt(arg[p].timestamp) = TagRows(arg[p].data, entry_id[p])
    /\ \A p \in Procs : Ignored(p) => Cardinality(EntriesAt(arg[p].timestamp)) = 1

C1_Witness ==
    \E p, q \in Procs :
        /\ Added(p) /\ Ignored(q)
        /\ arg[p].timestamp = arg[q].timestamp
        /\ arg[p].data # arg[q].data
        /\ RowsAt(arg[p].timestamp) = TagRows(arg[p].data, entry_id[p])

\* C2: in every committed (reader-visible) state an admission's entry and its
\* rows are all present or all absent: nothing of a call is visible while its
\* transaction is open or after its row insert failed, everything after it
\* committed, and no row is without its entry.
C2_Atomic ==
    /\ \A p \in Procs :
          (pc[p] \in {"entry_inserted", "rows_inserted"} \/ Failed(p)) =>
              /\ ~ \E e \in entryTable : e.id = entry_id[p]
              /\ RowsOfEntry(entry_id[p]) = {}
    /\ \A p \in Procs :
          Added(p) => /\ OwnEntry(p) \in entryTable
                      /\ RowsOfEntry(entry_id[p]) = TagRows(arg[p].data, entry_id[p])
    /\ \A r \in caseTable : \E e \in entryTable : e.id = r.entry_id

C2_Witness ==
    \E p, q \in Procs :
        /\ Failed(p) /\ arg[p].data # {} /\ entry_id[p] # 0
        /\ Added(q) /\ Cardinality(RowsOfEntry(entry_id[q])) = 2

\* C9: whenever two interleaved calls for the same timestamp have both passed
\* has_entry and committed, the entry table holds two entries for that
\* timestamp, each with its own set of rows.
C9_RaceDuplicates ==
    \A p, q \in Procs :
        (p # q /\ Added(p) /\ Added(q) /\ arg[p].timestamp = arg[q].timestamp) =>
            /\ {OwnEntry(p), OwnEntry(q)} \subseteq EntriesAt(arg[p].timestamp)
            /\ entry_id[p] # entry_id[q]
            /\ RowsOfEntry(entry_id[p]) = TagRows(arg[p].data, entry_id[p])
            /\ RowsOfEntry(entry_id[q]) = TagRows(arg[q].data, entry_id[q])

C9_Witness ==
    \E p, q \in Procs :
        /\ p # q /\ Added(p) /\ Added(q)
        /\ arg[p].timestamp = arg[q].timestamp
        /\ Cardinality(EntriesAt(arg[p].timestamp)) = 2

DayEntries(d) == {e \in entryTable : DateTrunc(e.timestamp) = d}
SeqRange(s) == {s[i] : i \in 1..Len(s)}

\* C3: get_daily_entries returns exactly one entry for every day that has an
\* entry, that entry has the greatest timestamp of its day, nothing else is
\* returned, and the rows come by day descending.
C3_DailyCollapse ==
    reply.op = "get_daily_entries" =>
        LET rows == reply.rows IN
        /\ SeqRange(rows) \subseteq entryTable
        /\ \A e \in entryTable :
              Cardinality({i \in 1..Len(rows) :
                  DateTrunc(rows[i].timestamp) = DateTrunc(e.timestamp)}) = 1
        /\ \A i \in 1..Len(rows) :
              \A e \in DayEntries(DateTrunc(rows[i].timestamp)) :
                  e.timestamp <= rows[i].timestamp
        /\ \A i, j \in 1..Len(rows) :
              i < j => DateTrunc(rows[i].timestamp) > DateTrunc(rows[j].timestamp)

C3_Witness ==
    /\ reply.op = "get_daily_entries"
    /\ Len(reply.rows) = 2
    /\ \E e \in entryTable :
          /\ e \notin SeqRange(reply.rows)
          /\ DateTrunc(e.timestamp) = DateTrunc(reply.rows[1].timestamp)
          /\ e.timestamp < reply.rows[1].timestamp

Qualifying(date) ==
    IF date = None THEN entryTable
    ELSE {e \in entryTable : DateTrunc(e.timestamp) <= date}

\* C7: get_entry(date) returns an entry of greatest timestamp among the
\* entries stamped on that day or earlier, get_entry() one of greatest
\* timestamp overall, and no entry when none qualifies.
C7_GetEntry ==
    reply.op = "get_entry" =>
        LET qual == Qualifying(reply.date) IN
        IF qual = {} THEN reply.rows = <<>>
        ELSE /\ Len(reply.rows) = 1
             /\ reply.rows[1] \in qual
             /\ \A e \in qual : e.timestamp <= reply.rows[1].timestamp

C7_Witness ==
    /\ reply.op = "get_entry"
    /\ reply.date # None
    /\ Len(reply.rows) = 1
    /\ DateTrunc(reply.rows[1].timestamp) = reply.date
    /\ reply.rows[1].timestamp > reply.date * TicksPerDay
    /\ \E e \in entryTable : DateTrunc(e.timestamp) > reply.date

\* --- the growth claims, stated over the tables themselves

\* the entry that stands for its day: the latest one
ReprEntries ==
    {e \in entryTable : \A x \in DayEntries(DateTrunc(e.timestamp)) : x.timestamp <= e.timestamp}
DailyRows ==
    {[date |-> DateTrunc(x[1].timestamp), state |-> x[2].state_code, confirmed |-> x[2].confirmed]
        : x \in {y \in ReprEntries \X caseTable : y[1].id = y[2].entry_id}}
RegionsWithData == {r.state : r \in DailyRows}
LatestDate == CHOOSE m \in {r.date : r \in DailyRows} : \A r \in DailyRows : r.date <= m
NullAsZero(v) == IF v = None THEN 0 ELSE v
\* the region's confirmed count on a day, 0 without a row
ConfirmedOn(state, day) ==
    LET rs == {r \in DailyRows : r.state = state /\ r.date = day}
    IN IF rs = {} THEN 0 ELSE (CHOOSE r \in rs : TRUE).confirmed
RECURSIVE SumOverStates(_, _)
SumOverStates(codes, day) ==
    IF codes = <<>> THEN 0
    ELSE NullAsZero(ConfirmedOn(Head(codes), day)) + SumOverStates(Tail(codes), day)
Expected(state, day) ==
    IF state = "india" THEN SumOverStates(StateCodes, day) ELSE ConfirmedOn(state, day)
\* the most-recent-first confirmed list of a record's region
ValuesOf(state) ==
    IF state = "india"
      THEN [i \in 1..WindowLen |-> Expected("india", LatestDate - (i - 1))]
      ELSE LET ds == {r.date : r \in {x \in DailyRows : x.state = state}}
           IN [i \in 1..Cardinality(ds) |->
                 ConfirmedOn(state,
                     CHOOSE d \in ds : Cardinality({x \in ds : x > d}) = i - 1)]
SmallestIndex(idx) == IF idx = {} THEN None ELSE (CHOOSE i \in idx : \A k \in idx : i <= k) - 1
Returned == reply.op = "get_cases_growth" /\ reply.exc = ""
Records == SeqRange(reply.rows)
CasesOn(rec, day) == (CHOOSE c \in SeqRange(rec.cases) : c.date = day).cases

\* C4 as stated: doubled_in is the smallest index whose value v has
\* v + v < current, null when there is none.
C4_Original ==
    Returned =>
        \A rec \in Records :
            LET vals == ValuesOf(rec.state)
                idx == {i \in 1..Len(vals) :
                           vals[i] # None /\ vals[1] # None /\ vals[i] + vals[i] < vals[1]}
            IN rec.doubled_in = SmallestIndex(idx)

\* C4 amended: doubled_in is the smallest index whose value v is neither null
\* nor zero and has v + v < current, null when there is none.
C4_DoubledIn ==
    Returned =>
        \A rec \in Records :
            LET vals == ValuesOf(rec.state)
                idx == {i \in 1..Len(vals) :
                           /\ vals[i] # None /\ vals[i] # 0
                           /\ vals[1] # None /\ vals[i] + vals[i] < vals[1]}
            IN rec.doubled_in = SmallestIndex(idx)

C4_Witness ==
    /\ Returned
    /\ \E rec \in Records :
          /\ rec.state # "india"
          /\ rec.doubled_in = 2
          /\ ValuesOf(rec.state)[2] = 0
    /\ \E rec \in Records : rec.state = "india" /\ rec.doubled_in = WindowLen - 1

\* C5 as stated: the records come by the count on the oldest day of the
\* window, descending.
C5_Original ==
    Returned =>
        \A i, j \in 1..Len(reply.rows) :
            i < j => CasesOn(reply.rows[i], LatestDate - (WindowLen - 1))
                       >= CasesOn(reply.rows[j], LatestDate - (WindowLen - 1))

\* C5 amended: the records come by the count on max_date, the newest day of
\* the window (the first element of cases, equal to current), descending.
C5_SortedByNewest ==
    Returned =>
        \A i, j \in 1..Len(reply.rows) :
            i < j => /\ Expected(reply.rows[i].state, LatestDate)
                          >= Expected(reply.rows[j].state, LatestDate)
                     /\ reply.rows[i].current >= reply.rows[j].current

C5_Witness ==
    /\ Returned
    /\ \E i, j \in 1..Len(reply.rows) :
          /\ i < j
          /\ reply.rows[i].current > reply.rows[j].current
          /\ CasesOn(reply.rows[i], LatestDate - (WindowLen - 1))
               < CasesOn(reply.rows[j], LatestDate - (WindowLen - 1))

\* C8: get_cases_growth completes on rows with a null confirmed and counts
\* the null as 0 in the national sum of each day.
C8_NullAsZero ==
    (reply.op = "get_cases_growth" /\ DailyRows # {}) =>
        /\ reply.exc = ""
        /\ \A rec \in Records :
              rec.state = "india" =>
                  \A i \in 1..Len(rec.cases) :
                      rec.cases[i].cases = Expected("india", rec.cases[i].date)

\* C10: every record has 20 cases, one per day of [max_date-19, max_date];
\* each is the region's confirmed count of that day or 0 without a row,
\* current is the count on max_date or 0, the values of 'india' are the sums
\* over the regions, and there is one record per region with data and one
\* for 'india'.
C10_Window ==
    Returned =>
        /\ {rec.state : rec \in Records} = RegionsWithData \cup {"india"}
        /\ Len(reply.rows) = Cardinality(RegionsWithData) + 1
        /\ \A rec \in Records :
              /\ Len(rec.cases) = WindowLen
              /\ {rec.cases[i].date : i \in 1..Len(rec.cases)}
                     = (LatestDate - (WindowLen - 1))..LatestDate
              /\ \A i \in 1..Len(rec.cases) :
                     rec.cases[i].cases = Expected(rec.state, rec.cases[i].date)
              /\ rec.current = Expected(rec.state, LatestDate)

C10_Witness ==
    /\ Returned
    /\ Len(reply.rows) = 3
    /\ \E rec \in Records : rec.state = "ap" /\ rec.current = 0
                            /\ CasesOn(rec, LatestDate - (WindowLen - 1)) = 3
    /\ \E rec \in Records : rec.state = "india" /\ rec.current = 3
                            /\ CasesOn(rec, LatestDate - (WindowLen - 1)) = 4
    /\ LatestDate = LastDay

\* --- compute_totals

RECURSIVE SumOverRows(_, _)
SumOverRows(S, k) ==
    IF S = {} THEN 0
    ELSE LET r == CHOOSE x \in S : TRUE
         IN NullAsZero(r[k]) + SumOverRows(S \ {r}, k)

\* C6: for a non-empty mapping whose rows share their keys, compute_totals
\* gives for every field the sum over all regions with null counted as 0,
\* and gives the same for every iteration order of the regions.
C6_Totals ==
    (reply.op = "get_cases" /\ caseTable # {}) =>
        /\ reply.exc = ""
        /\ LET r == reply.rows[1] IN
           /\ DOMAIN r.india = CountFields
           /\ \A k \in CountFields : r.india[k] = SumOverRows(caseTable, k)
           /\ \A other \in AnyOrder(SeqRange(r.states)) :
                  compute_totals(other).totals = r.india

C6_Witness ==
    /\ reply.op = "get_cases" /\ reply.exc = ""
    /\ Len(reply.rows[1].states) = 3
    /\ reply.rows[1].states[1].row["confirmed"] = None
    /\ reply.rows[1].states[2].row["deaths"] = None
    /\ reply.rows[1].india["confirmed"] = 1
    /\ reply.rows[1].india["deaths"] = 2

=============================================================================
